---------------------------- MODULE Spec2Model ----------------------------
(***************************************************************************)
(* Live chord detector (www/app.js, www/audio-processor.js).               *)
(*                                                                         *)
(* The page keeps its pipeline state in module-level variables; the         *)
(* handlers that touch them are the start/stop click handler, the           *)
(* asynchronous steps of startAudioWorkletStream, the EssentiaWASM().then   *)
(* callback and the AudioWorklet port's onmessage handler.  Every handler   *)
(* runs to completion on the page's single event loop, so each is one       *)
(* action; an await is the boundary between two actions.                    *)
(*                                                                         *)
(* Numbers.  Chroma values are JavaScript doubles.  A vector is modelled    *)
(* as a record [num, den] with num a 12-tuple: the entry at (0-based) index *)
(* i has the exact value At(num, i) / den.  Times are whole milliseconds,   *)
(* RMS values are thousandths.                                              *)
(***************************************************************************)
EXTENDS Integers, Sequences, FiniteSets, TLC

(***************************************************************************)
(* Program constants                                                       *)
(***************************************************************************)
BUFFER_SIZE == 8192

HOP_SIZE == 512

SMOOTHING_INTERVAL == 250

\* the loudness floor 0.05 of the handler, in thousandths
RMS_FLOOR == 50

\* the shift the handler passes to shiftHPCP
PITCH_SHIFT == -3

\* the threshold 0.1 the handler passes to detectNotes is NOTE_THRESHOLD_NUM / NOTE_THRESHOLD_DEN
NOTE_THRESHOLD_NUM == 1

NOTE_THRESHOLD_DEN == 10

\* line 88: the default threshold of detectNotes, 0.12
DEFAULT_THRESHOLD_NUM == 12

DEFAULT_THRESHOLD_DEN == 100

(***************************************************************************)
(* Bounds of the model                                                     *)
(***************************************************************************)
\* the clock stops advancing at MaxTime milliseconds
MaxTime == 500

\* the clock of the liveness model stops advancing at MaxLiveTime milliseconds
MaxLiveTime == 1000

\* the smoothing accumulation holds at most MaxAccum vectors while the window
\* is open; the push that flushes it may add one more
MaxAccum == 2

\* messages of a stopped producer still queued for the page when stop() ran
MaxInFlight == 1

\* EssentiaWASM() promises outstanding at the same time
MaxWasmPending == 1

\* the clock advances in steps of these sizes, one just short of the
\* smoothing interval and one that reaches it
TickSteps == {SMOOTHING_INTERVAL - 1, SMOOTHING_INTERVAL}

\* denominator of the chroma values the feature extractor returns
ChromaDen == 10

Idx == 0 .. 11

(***************************************************************************)
(* Vectors                                                                 *)
(***************************************************************************)
\* a JavaScript array of length 12 is a 12-tuple; At is the read of index i
At(v, i) == v[i + 1]

\* the array whose entry at index i is F(i)
Array12(F(_)) ==
    <<F(0), F(1), F(2), F(3), F(4), F(5), F(6), F(7), F(8), F(9), F(10), F(11)>>

\* the sum of a[i] * b[i] over the 12 entries
Dot(a, b) ==
    a[1] * b[1] + a[2] * b[2] + a[3] * b[3] + a[4] * b[4] + a[5] * b[5] + a[6] * b[6]
        + a[7] * b[7] + a[8] * b[8] + a[9] * b[9] + a[10] * b[10] + a[11] * b[11]
        + a[12] * b[12]

\* new Array(12).fill(0)
Zeros == Array12(LAMBDA i : 0)

\* JavaScript's % on integers: the result takes the sign of the dividend
JsMod(a, n) == IF a >= 0 THEN a % n ELSE 0 - ((0 - a) % n)

(***************************************************************************)
(* shiftHPCP: shifted[(i + shift + len) % len] = hpcp[i].  An index the     *)
(* loop never writes stays a hole of the new Array; Hole marks it.  A       *)
(* negative index i + shift + len (shift < -len) writes a property that is  *)
(* no array element, so such a write does not show in the 12 entries.       *)
(***************************************************************************)
\* the marker of an array hole (reads as undefined)
Hole == -1

ShiftTarget(i, shift) == JsMod(i + shift + 12, 12)

\* a variant that rotates the other way round
shiftHPCPReversed(hpcp, shift) ==
    [num |-> Array12(LAMBDA j : At(hpcp.num, (j + shift + 12) % 12)), den |-> hpcp.den]

shiftHPCP(hpcp, shift) ==
    [num |-> Array12(LAMBDA j :
                IF \E i \in Idx : ShiftTarget(i, shift) = j
                THEN At(hpcp.num, CHOOSE i \in Idx : ShiftTarget(i, shift) = j)
                ELSE Hole),
     den |-> hpcp.den]

(***************************************************************************)
(* Chord templates                                                         *)
(***************************************************************************)
noteNames == <<"C", "C#", "D", "D#", "E", "F", "F#", "G", "G#", "A", "A#", "B">>

\* Object.entries(chordTypes) enumerates the keys in insertion order
chordTypes ==
    << [type |-> "maj", intervals |-> <<0, 4, 7>>],
       [type |-> "min", intervals |-> <<0, 3, 7>>],
       [type |-> "dim", intervals |-> <<0, 3, 6>>],
       [type |-> "aug", intervals |-> <<0, 4, 8>>],
       [type |-> "7",   intervals |-> <<0, 4, 7, 10>>] >>

RECURSIVE FillTemplate(_, _, _)
\* the template after the first n intervals of the forEach
FillTemplate(rootIndex, intervals, n) ==
    IF n = 0 THEN Zeros
    ELSE [FillTemplate(rootIndex, intervals, n - 1)
            EXCEPT ![((rootIndex + intervals[n]) % 12) + 1] = 1]

\* a variant that builds every template on the root C
generateChordTemplateUnrooted(rootIndex, intervals) ==
    FillTemplate(0, intervals, Len(intervals))

generateChordTemplate(rootIndex, intervals) ==
    FillTemplate(rootIndex, intervals, Len(intervals))

ChordLabel(i, type) == noteNames[i + 1] \o ":" \o type

\* The templates object is modelled as the sequence of its entries in
\* insertion order, which is the order for..in visits them (no key is an
\* array index, and no key is assigned twice).
RECURSIVE TemplatesOfRoot(_, _)
\* the entries the inner loop adds for root i, for the first n chord types
TemplatesOfRoot(i, n) ==
    IF n = 0 THEN <<>>
    ELSE Append(TemplatesOfRoot(i, n - 1),
                [label |-> ChordLabel(i, chordTypes[n].type),
                 template |-> [num |-> generateChordTemplate(i, chordTypes[n].intervals),
                               den |-> 1]])

RECURSIVE TemplatesUpTo(_)
\* the entries after the outer loop has run for the roots 0 .. n - 1
TemplatesUpTo(n) ==
    IF n = 0 THEN <<>>
    ELSE TemplatesUpTo(n - 1) \o TemplatesOfRoot(n - 1, Len(chordTypes))

generateChordTemplates == TemplatesUpTo(12)

chordTemplates == generateChordTemplates

\* a variant that scores a vector of norm zero as 0 instead of 0 / 0
cosineSimilarityZeroSafe(a, b) ==
    [kind |-> "num", dot |-> Dot(a.num, b.num),
     nn |-> IF Dot(a.num, a.num) * Dot(b.num, b.num) = 0
            THEN 1 ELSE Dot(a.num, a.num) * Dot(b.num, b.num)]

\* a variant that leaves out the division by the norms
dotProductOnly(a, b) == [kind |-> "num", dot |-> Dot(a.num, b.num), nn |-> 1]

(***************************************************************************)
(* cosineSimilarity.  The value is dot / (sqrt(normA) * sqrt(normB)) with   *)
(* dot = dotN / (a.den * b.den), normA = normAN / a.den^2 and normB =       *)
(* normBN / b.den^2; the denominators cancel, so the score is               *)
(* dotN / sqrt(normAN * normBN).  It is NaN (0 / 0) when a norm is zero.    *)
(***************************************************************************)
cosineSimilarity(a, b) ==
    LET dotN   == Dot(a.num, b.num)
        normAN == Dot(a.num, a.num)
        normBN == Dot(b.num, b.num)
    IN  IF normAN * normBN = 0
        THEN [kind |-> "NaN", dot |-> 0, nn |-> 1]
        ELSE [kind |-> "num", dot |-> dotN, nn |-> normAN * normBN]

NegInfinity == [kind |-> "-Infinity", dot |-> 0, nn |-> 1]

Sign(x) == IF x > 0 THEN 1 ELSE IF x < 0 THEN -1 ELSE 0

\* a variant that lets a later template of equal similarity replace the best one
ScoreGreaterOrEqual(s, t) ==
    CASE s.kind = "NaN" \/ t.kind = "NaN" -> FALSE
      [] t.kind = "-Infinity" -> TRUE
      [] s.kind = "-Infinity" -> FALSE
      [] OTHER ->
            IF Sign(s.dot) # Sign(t.dot)
            THEN Sign(s.dot) > Sign(t.dot)
            ELSE Sign(s.dot) * (s.dot * s.dot * t.nn) >= Sign(s.dot) * (t.dot * t.dot * s.nn)

\* JavaScript's s > t on the scores: false when either side is NaN,
\* otherwise s.dot / sqrt(s.nn) > t.dot / sqrt(t.nn), decided on the squares
ScoreGreater(s, t) ==
    CASE s.kind = "NaN" \/ t.kind = "NaN" -> FALSE
      [] s.kind = "-Infinity" -> FALSE
      [] t.kind = "-Infinity" -> TRUE
      [] OTHER ->
            IF Sign(s.dot) # Sign(t.dot)
            THEN Sign(s.dot) > Sign(t.dot)
            ELSE Sign(s.dot) * (s.dot * s.dot * t.nn) > Sign(s.dot) * (t.dot * t.dot * s.nn)

(***************************************************************************)
(* detectChord.  The state of the for..in loop is [bestChord, bestScore];   *)
(* bestChord starts as null.  DetectStep is one iteration.  DetectLoop runs *)
(* the iterations lo .. hi in order, from state: first lo .. mid, then      *)
(* mid + 1 .. hi from the state that gives (the singleton set makes TLC     *)
(* compute that state before it goes on).                                   *)
(***************************************************************************)
DetectStep(state, hpcpVector, entry) ==
    LET score == cosineSimilarity(hpcpVector, entry.template)
    IN  IF ScoreGreater(score, state.bestScore)
        THEN [bestChord |-> entry.label, bestScore |-> score]
        ELSE state

RECURSIVE DetectLoop(_, _, _, _, _)
DetectLoop(state, hpcpVector, templates, lo, hi) ==
    IF lo > hi THEN state
    ELSE IF lo = hi THEN DetectStep(state, hpcpVector, templates[lo])
    ELSE LET mid == (lo + hi) \div 2
         IN  CHOOSE r \in {DetectLoop(s, hpcpVector, templates, mid + 1, hi) :
                             s \in {DetectLoop(state, hpcpVector, templates, lo, mid)}} : TRUE

detectChord(hpcpVector, templates) ==
    DetectLoop([bestChord |-> "null", bestScore |-> NegInfinity],
               hpcpVector, templates, 1, Len(templates)).bestChord

(***************************************************************************)
(* detectNotes, and the formatting of its result by the handler.            *)
(***************************************************************************)
\* indices whose value is >= threshold, in index order
RECURSIVE FilterNotes(_, _, _, _)
FilterNotes(v, tn, td, n) ==
    IF n = 0 THEN <<>>
    ELSE LET rest == FilterNotes(v, tn, td, n - 1)
         IN  IF At(v.num, n - 1) * td >= tn * v.den THEN Append(rest, n - 1) ELSE rest

\* a variant that puts an element in front of the elements equal to it
InsertDescBeforeTies(v, sorted, x) ==
    LET keep == {k \in 0 .. Len(sorted) :
                    \A m \in 1 .. k : At(v.num, sorted[m]) > At(v.num, x)}
        pos  == CHOOSE k \in keep : \A k2 \in keep : k2 <= k
    IN  SubSeq(sorted, 1, pos) \o <<x>> \o SubSeq(sorted, pos + 1, Len(sorted))

\* Array.prototype.sort with (a, b) => b.value - a.value is a stable sort by
\* descending value: insertion of each element after the elements that are >= it
RECURSIVE SortDesc(_, _)
InsertDesc(v, sorted, x) ==
    LET keep == {k \in 0 .. Len(sorted) :
                    \A m \in 1 .. k : At(v.num, sorted[m]) >= At(v.num, x)}
        pos  == CHOOSE k \in keep : \A k2 \in keep : k2 <= k
    IN  SubSeq(sorted, 1, pos) \o <<x>> \o SubSeq(sorted, pos + 1, Len(sorted))

SortDesc(v, s) ==
    IF s = <<>> THEN <<>>
    ELSE InsertDesc(v, SortDesc(v, SubSeq(s, 1, Len(s) - 1)), s[Len(s)])

detectNotes(hpcpVector, tn, td) ==
    LET idxs == SortDesc(hpcpVector, FilterNotes(hpcpVector, tn, td, 12))
    IN  [k \in 1 .. Len(idxs) |->
            [note |-> noteNames[idxs[k] + 1], num |-> At(hpcpVector.num, idxs[k]),
             den |-> hpcpVector.den]]

\* value.toFixed(2): the value in hundredths, rounded to nearest, half up
ToFixed2(num, den) == (200 * num + den) \div (2 * den)

\* topNotes: "C (1.00), E (0.50)" as the sequence of its items <<note, hundredths>>
TopNotes(notes) ==
    [text |-> "joined",
     items |-> [k \in 1 .. Len(notes) |->
                  <<notes[k].note, ToFixed2(notes[k].num, notes[k].den)>>]]

\* the string "None" the results start as
NoneText == [text |-> "None", items |-> <<>>]

(***************************************************************************)
(* Sample chunks.  A chunk is a Float32Array the worklet posts; its         *)
(* samples are named by where they come from: chunk [src, len] holds the    *)
(* samples (src, 0) .. (src, len - 1).  A buffer is a sequence of runs      *)
(* [src, from, len]: the samples (src, from) .. (src, from + len - 1).      *)
(***************************************************************************)
Chunk(src, len) == [src |-> src, from |-> 0, len |-> len]

\* what the producer of the full model posts: half a frame at a time
Chunks == {Chunk(1, 4096)}

\* the producer of the frame model posts 100 samples at a time
FrameChunks == {Chunk(1, 100)}

RECURSIVE SumLengths(_, _, _)
\* the lengths of acc[lo] .. acc[hi] added up
SumLengths(acc, lo, hi) ==
    IF lo > hi THEN 0
    ELSE IF lo = hi THEN acc[lo].len
    ELSE LET mid == (lo + hi) \div 2
         IN  SumLengths(acc, lo, mid) + SumLengths(acc, mid + 1, hi)

\* sampleAccumulator.reduce((sum, arr) => sum + arr.length, 0)
TotalSamples(acc) == SumLengths(acc, 1, Len(acc))

\* buffer.subarray(0, n) of a buffer given as runs: the runs that end at or
\* before n, and the part of the next run that lies before n
Subarray(runs, n) ==
    LET whole == {k \in 0 .. Len(runs) : SumLengths(runs, 1, k) <= n}
        full  == CHOOSE k \in whole : \A k2 \in whole : k2 <= k
        used  == SumLengths(runs, 1, full)
    IN  IF full = Len(runs) \/ used = n
        THEN SubSeq(runs, 1, full)
        ELSE Append(SubSeq(runs, 1, full), [runs[full + 1] EXCEPT !.len = n - used])

\* a variant that waits for more than BUFFER_SIZE samples
FrameReadyStrict(totalSamples) == totalSamples > BUFFER_SIZE

\* line 165
FrameReady(totalSamples) == totalSamples >= BUFFER_SIZE

\* a variant that keeps every buffered sample, without the cut at BUFFER_SIZE
BuildBufferNoCut(acc) == acc

\* the buffer the handler builds from the accumulated chunks: buffer.set(arr,
\* offset) for each chunk in turn, then the cut to BUFFER_SIZE when it is longer
BuildBuffer(acc) ==
    IF TotalSamples(acc) > BUFFER_SIZE THEN Subarray(acc, BUFFER_SIZE) ELSE acc

(***************************************************************************)
(* The feature extractor (Essentia.js) is external: RMS and hpcpExtractor   *)
(* may return any value of their range or throw.                            *)
(***************************************************************************)
RmsOutcomes ==
    { [ok |-> FALSE, rms |-> 0],
      [ok |-> TRUE,  rms |-> RMS_FLOOR - 1],
      [ok |-> TRUE,  rms |-> RMS_FLOOR] }

ChromaOf(set) ==
    [num |-> Array12(LAMBDA i : IF i \in set THEN ChromaDen ELSE 0), den |-> ChromaDen]

\* chroma vectors the extractor of the model returns: the pitch classes
\* C, D#, G at full strength, and the pitch classes C, E, A at full strength
ChromaValues == {ChromaOf({0, 3, 7}), ChromaOf({0, 4, 9})}

HpcpOutcomes ==
    {[ok |-> FALSE, hpcp |-> [num |-> Zeros, den |-> ChromaDen]]}
        \cup {[ok |-> TRUE, hpcp |-> h] : h \in ChromaValues}

\* a variant that also rejects a frame whose RMS is exactly the floor
TooQuietInclusive(rms) == rms <= RMS_FLOOR

\* line 178
TooQuiet(rms) == rms < RMS_FLOOR

\* a variant that needs more than SMOOTHING_INTERVAL to have elapsed
WindowElapsedStrict(t, lastTime) == t - lastTime > SMOOTHING_INTERVAL

\* line 188
WindowElapsed(t, lastTime) == t - lastTime >= SMOOTHING_INTERVAL

(***************************************************************************)
(* State                                                                   *)
(***************************************************************************)
VARIABLES
    isRecording,        \* app.js:111
    essentiaExtractor,  \* app.js:103  "null", "configured", or "created" (sampleRate never set)
    audioCtx,           \* app.js:104  "null" or "running"
    gumStream,          \* app.js:105  "null" or "live"
    audioWorkletNode,   \* app.js:106  "null" or "connected"
    gainNode,           \* app.js:107  "null" or "connected"
    hpcpAccumulation,   \* app.js:114  sequence of vectors
    lastSmoothingTime,  \* app.js:116
    lastChordResult,    \* app.js:119
    lastNotesResult,    \* app.js:120  NoneText or the items of the joined string
    sampleAccumulator,  \* app.js:123  sequence of chunks
    now,                \* performance.now()
    startPc,            \* where the running startAudioWorkletStream call waits
    wasmPending,        \* EssentiaWASM() promises not yet settled
    inFlight,           \* messages of stopped producers not yet delivered
    last,               \* what the onmessage handler did, when it ran last
    call,               \* the last call of a function made on its own, and its result
    overwrites          \* history: the overwrites of the stored result so far

vars == <<isRecording, essentiaExtractor, audioCtx, gumStream, audioWorkletNode,
          gainNode, hpcpAccumulation, lastSmoothingTime, lastChordResult,
          lastNotesResult, sampleAccumulator, now, startPc, wasmPending, inFlight,
          last, call, overwrites>>

resources == <<audioCtx, gumStream, audioWorkletNode, gainNode>>

pipeline == <<hpcpAccumulation, lastSmoothingTime, lastChordResult,
              lastNotesResult, sampleAccumulator>>

\* What a run of the onmessage handler did: the chunk it got, how it ended,
\* the frame it passed to the extractor, the value RMS returned and the
\* vector hpcpExtractor returned (each a sequence, empty when there is none).
Log(outcome, chunk, frame, rms, hpcp) ==
    [outcome |-> outcome, chunk |-> <<chunk>>, frame |-> frame, rms |-> rms, hpcp |-> hpcp]

\* the handler that ran last was not onmessage
NoLog == [outcome |-> "none", chunk |-> <<>>, frame |-> <<>>, rms |-> <<>>, hpcp |-> <<>>]

NoCall == [fn |-> "none"]

\* no overwrite so far, and no stop
NoOverwrites == [log |-> <<>>, stopped |-> FALSE]

\* the page after the script has run: lastSmoothingTime = performance.now()
Init ==
    /\ isRecording = FALSE
    /\ essentiaExtractor = "null"
    /\ audioCtx = "null"
    /\ gumStream = "null"
    /\ audioWorkletNode = "null"
    /\ gainNode = "null"
    /\ hpcpAccumulation = <<>>
    /\ now = 0
    /\ lastSmoothingTime = 0
    /\ lastChordResult = "None"
    /\ lastNotesResult = NoneText
    /\ sampleAccumulator = <<>>
    /\ startPc = "none"
    /\ wasmPending = 0
    /\ inFlight = 0
    /\ last = NoLog
    /\ call = NoCall
    /\ overwrites = NoOverwrites

(***************************************************************************)
(* The click handler of start-btn and startAudioWorkletStream.  The button  *)
(* is disabled from the click until the promise of                          *)
(* startAudioWorkletStream resolves, so startPc = "none" is "the button is  *)
(* enabled".  When the function returns, the then-callback runs before any  *)
(* other handler: returning and isRecording = true are one step.            *)
(***************************************************************************)
\* startAudioWorkletStream returned (normally): the then-callback of the click handler
StartResolved ==
    /\ isRecording' = TRUE
    /\ startPc' = "none"

\* click while not recording: the button is disabled, loadScript(ESSENTIA_WASM_URL) awaited
ClickStart ==
    /\ startPc = "none"
    /\ ~isRecording
    /\ wasmPending < MaxWasmPending
    /\ startPc' = "loadWasm"
    /\ last' = NoLog
    /\ UNCHANGED <<isRecording, essentiaExtractor, resources, pipeline, now, wasmPending, inFlight, call, overwrites>>

\* the first script loads; loadScript(ESSENTIA_EXTRACTOR_URL) awaited
LoadWasmScriptOk ==
    /\ startPc = "loadWasm"
    /\ startPc' = "loadExtractor"
    /\ last' = NoLog
    /\ UNCHANGED <<isRecording, essentiaExtractor, resources, pipeline, now, wasmPending, inFlight, call, overwrites>>

\* a script fails to load: the promise of startAudioWorkletStream rejects, the
\* then-callback never runs and the button stays disabled
LoadScriptFail ==
    /\ startPc \in {"loadWasm", "loadExtractor"}
    /\ startPc' = "rejected"
    /\ last' = NoLog
    /\ UNCHANGED <<isRecording, essentiaExtractor, resources, pipeline, now, wasmPending, inFlight, call, overwrites>>

\* the second script loads and new AudioContext() throws: alert, return
AudioContextFail ==
    /\ startPc = "loadExtractor"
    /\ StartResolved
    /\ last' = NoLog
    /\ UNCHANGED <<essentiaExtractor, resources, pipeline, now, wasmPending, inFlight, call, overwrites>>

\* the second script loads, the AudioContext is created, EssentiaWASM() is
\* called (its then-callback runs later) and getUserMedia is awaited
AudioContextOk ==
    /\ startPc = "loadExtractor"
    /\ audioCtx' = "running"
    /\ wasmPending' = wasmPending + 1
    /\ startPc' = "getUserMedia"
    /\ last' = NoLog
    /\ UNCHANGED <<isRecording, essentiaExtractor, gumStream, audioWorkletNode, gainNode,
                   pipeline, now, inFlight, call, overwrites>>

\* getUserMedia rejects: alert, return
GetUserMediaFail ==
    /\ startPc = "getUserMedia"
    /\ StartResolved
    /\ last' = NoLog
    /\ UNCHANGED <<essentiaExtractor, resources, pipeline, now, wasmPending, inFlight, call, overwrites>>

\* getUserMedia resolves; audioWorklet.addModule awaited
GetUserMediaOk ==
    /\ startPc = "getUserMedia"
    /\ gumStream' = "live"
    /\ startPc' = "addModule"
    /\ last' = NoLog
    /\ UNCHANGED <<isRecording, essentiaExtractor, audioCtx, audioWorkletNode, gainNode,
                   pipeline, now, wasmPending, inFlight, call, overwrites>>

\* addModule rejects: alert, return
AddModuleFail ==
    /\ startPc = "addModule"
    /\ StartResolved
    /\ last' = NoLog
    /\ UNCHANGED <<essentiaExtractor, resources, pipeline, now, wasmPending, inFlight, call, overwrites>>

\* addModule resolves: the node is created, onmessage is set, the graph is connected
AddModuleOk ==
    /\ startPc = "addModule"
    /\ audioWorkletNode' = "connected"
    /\ gainNode' = "connected"
    /\ StartResolved
    /\ last' = NoLog
    /\ UNCHANGED <<essentiaExtractor, audioCtx, gumStream, pipeline, now, wasmPending, inFlight, call, overwrites>>

(***************************************************************************)
(* The then-callback of EssentiaWASM().  It reads audioCtx when it runs:    *)
(* after a stop() audioCtx is null, audioCtx.sampleRate throws and the      *)
(* extractor stays assigned with frameSize and hopSize set.                 *)
(***************************************************************************)
WasmReady ==
    /\ wasmPending > 0
    /\ wasmPending' = wasmPending - 1
    /\ essentiaExtractor' = IF audioCtx = "null" THEN "created" ELSE "configured"
    /\ last' = NoLog
    /\ UNCHANGED <<isRecording, resources, pipeline, now, startPc, inFlight, call, overwrites>>

\* the EssentiaWASM() promise rejects: no callback runs
WasmFail ==
    /\ wasmPending > 0
    /\ wasmPending' = wasmPending - 1
    /\ last' = NoLog
    /\ UNCHANGED <<isRecording, essentiaExtractor, resources, pipeline, now, startPc, inFlight, call, overwrites>>

(***************************************************************************)
(* stopAudioWorkletStream, called by the click handler while recording.     *)
(* Messages the worklet posted before the graph went down are still         *)
(* queued: between none and MaxInFlight of them are delivered later.        *)
(***************************************************************************)
\* a variant that also puts the placeholder back in place of the stored result
stopAndForget ==
    /\ essentiaExtractor' = "null"
    /\ audioCtx' = "null"
    /\ gumStream' = "null"
    /\ audioWorkletNode' = "null"
    /\ gainNode' = "null"
    /\ isRecording' = FALSE
    /\ hpcpAccumulation' = <<>>
    /\ sampleAccumulator' = <<>>
    /\ lastChordResult' = "None"
    /\ lastNotesResult' = NoneText
    /\ UNCHANGED lastSmoothingTime

\* a variant that also forgets when the stored result was last overwritten
stopAndRewind ==
    /\ essentiaExtractor' = "null"
    /\ audioCtx' = "null"
    /\ gumStream' = "null"
    /\ audioWorkletNode' = "null"
    /\ gainNode' = "null"
    /\ isRecording' = FALSE
    /\ hpcpAccumulation' = <<>>
    /\ sampleAccumulator' = <<>>
    /\ lastSmoothingTime' = 0
    /\ UNCHANGED <<lastChordResult, lastNotesResult>>

stopAudioWorkletStream ==
    /\ essentiaExtractor' = "null"
    /\ audioCtx' = "null"
    /\ gumStream' = "null"
    /\ audioWorkletNode' = "null"
    /\ gainNode' = "null"
    /\ isRecording' = FALSE
    /\ hpcpAccumulation' = <<>>
    /\ sampleAccumulator' = <<>>
    /\ UNCHANGED <<lastSmoothingTime, lastChordResult, lastNotesResult>>

ClickStopHandler ==
    /\ startPc = "none"
    /\ isRecording
    /\ stopAudioWorkletStream
    /\ \E n \in inFlight .. MaxInFlight :
          inFlight' = IF audioWorkletNode = "connected" THEN n ELSE inFlight
    /\ last' = NoLog
    /\ UNCHANGED <<now, startPc, wasmPending, call>>

ClickStop == ClickStopHandler /\ UNCHANGED overwrites

(***************************************************************************)
(* audioWorkletNode.port.onmessage                                         *)
(***************************************************************************)
\* the reduce of the handler: per index the sum over the accumulated vectors,
\* from new Array(12).fill(0), then each sum divided by the number of vectors
RECURSIVE SumVectors(_, _)
SumVectors(accum, n) ==
    IF n = 0 THEN Zeros
    ELSE LET acc == SumVectors(accum, n - 1)
         IN  Array12(LAMBDA i : At(acc, i) + At(accum[n].num, i))

\* a variant that keeps only the newest vector of the window
AvgLatest(accum) == accum[Len(accum)]

AvgHPCP(accum) ==
    [num |-> SumVectors(accum, Len(accum)), den |-> accum[1].den * Len(accum)]

\* a variant in which a skipped frame also restarts the smoothing window
SkipFrameRestarting ==
    /\ lastSmoothingTime' = now
    /\ UNCHANGED <<hpcpAccumulation, lastChordResult, lastNotesResult>>

\* the handler ends without reaching the smoothing: the return of line 179,
\* or an exception out of line 177 or line 182
SkipFrame ==
    UNCHANGED <<hpcpAccumulation, lastSmoothingTime, lastChordResult, lastNotesResult>>

\* a variant that restarts the smoothing window at every accepted frame
SmoothFromPush(accum, log) ==
    IF WindowElapsed(now, lastSmoothingTime)
    THEN LET avgHPCP == AvgHPCP(accum)
         IN  /\ hpcpAccumulation' = <<>>
             /\ lastSmoothingTime' = now
             /\ lastChordResult' = detectChord(avgHPCP, chordTemplates)
             /\ lastNotesResult' =
                    TopNotes(detectNotes(avgHPCP, NOTE_THRESHOLD_NUM, NOTE_THRESHOLD_DEN))
             /\ last' = [log EXCEPT !.outcome = "flushed"]
    ELSE /\ hpcpAccumulation' = <<>>
         /\ lastSmoothingTime' = now
         /\ last' = [log EXCEPT !.outcome = "accepted"]
         /\ UNCHANGED <<lastChordResult, lastNotesResult>>

\* lines 187-204, after hpcpAccumulation.push(hpcp) gave accum
Smooth(accum, log) ==
    IF WindowElapsed(now, lastSmoothingTime)
    THEN LET avgHPCP == AvgHPCP(accum)
         IN  /\ hpcpAccumulation' = <<>>
             /\ lastSmoothingTime' = now
             /\ lastChordResult' = detectChord(avgHPCP, chordTemplates)
             /\ lastNotesResult' =
                    TopNotes(detectNotes(avgHPCP, NOTE_THRESHOLD_NUM, NOTE_THRESHOLD_DEN))
             /\ last' = [log EXCEPT !.outcome = "flushed"]
    ELSE /\ hpcpAccumulation' = accum
         /\ last' = [log EXCEPT !.outcome = "accepted"]
         /\ UNCHANGED <<lastSmoothingTime, lastChordResult, lastNotesResult>>

\* lines 177-204, with the frame in buffer.  RMS and hpcpExtractor are
\* external: each call returns one of its outcomes
AnalyseFrom(chunk, buffer, rmsOutcomes, hpcpOutcomes) ==
    IF essentiaExtractor = "null"
    THEN \* essentiaExtractor.arrayToVector: TypeError
         /\ last' = Log("noExtractor", chunk, buffer, <<>>, <<>>)
         /\ SkipFrame
    ELSE \E r \in rmsOutcomes :
           IF ~r.ok
           THEN /\ last' = Log("rmsThrew", chunk, buffer, <<>>, <<>>)
                /\ SkipFrame
           ELSE IF TooQuiet(r.rms)
           THEN /\ last' = Log("quiet", chunk, buffer, <<r.rms>>, <<>>)
                /\ SkipFrame
           ELSE \E h \in hpcpOutcomes :
                  IF ~h.ok
                  THEN /\ last' = Log("hpcpThrew", chunk, buffer, <<r.rms>>, <<>>)
                       /\ SkipFrame
                  ELSE /\ \/ Len(hpcpAccumulation) < MaxAccum
                          \/ WindowElapsed(now, lastSmoothingTime)
                       /\ Smooth(Append(hpcpAccumulation, shiftHPCP(h.hpcp, PITCH_SHIFT)),
                                 Log("pushed", chunk, buffer, <<r.rms>>, <<h.hpcp>>))

\* lines 177-204, RMS returning any of its outcomes
AnalyseWith(chunk, buffer, hpcpOutcomes) ==
    AnalyseFrom(chunk, buffer, RmsOutcomes, hpcpOutcomes)

Analyse(chunk, buffer) == AnalyseWith(chunk, buffer, HpcpOutcomes)

\* the whole handler for one message, hpcpExtractor returning one of hpcpOutcomes
OnMessageFrom(chunk, rmsOutcomes, hpcpOutcomes) ==
    LET pushed == Append(sampleAccumulator, chunk)
        totalSamples == TotalSamples(pushed)
    IN  IF FrameReady(totalSamples)
        THEN /\ sampleAccumulator' = <<>>
             /\ AnalyseFrom(chunk, BuildBuffer(pushed), rmsOutcomes, hpcpOutcomes)
        ELSE /\ sampleAccumulator' = pushed
             /\ last' = Log("buffered", chunk, <<>>, <<>>, <<>>)
             /\ SkipFrame

\* the whole handler for one message, RMS returning any of its outcomes
OnMessageWith(chunk, hpcpOutcomes) == OnMessageFrom(chunk, RmsOutcomes, hpcpOutcomes)

\* the whole handler for one message
OnMessage(chunk) == OnMessageWith(chunk, HpcpOutcomes)

\* audio-processor.js: the connected worklet posts a chunk, the page handles it
DeliverFrom(chunks) ==
    /\ audioWorkletNode = "connected"
    /\ \E c \in chunks : OnMessage(c)
    /\ UNCHANGED <<isRecording, essentiaExtractor, resources, now, startPc, wasmPending,
                   inFlight, call>>

\* a message a stopped producer had posted reaches the handler, which is
\* still the port's onmessage
DeliverInFlightFrom(chunks) ==
    /\ inFlight > 0
    /\ inFlight' = inFlight - 1
    /\ \E c \in chunks : OnMessage(c)
    /\ UNCHANGED <<isRecording, essentiaExtractor, resources, now, startPc, wasmPending, call>>

Deliver == DeliverFrom(Chunks) /\ UNCHANGED overwrites

DeliverInFlight == DeliverInFlightFrom(Chunks) /\ UNCHANGED overwrites

\* performance.now() advances, up to limit
TickUpTo(limit) ==
    /\ \E d \in TickSteps : now + d <= limit /\ now' = now + d
    /\ last' = NoLog
    /\ UNCHANGED <<isRecording, essentiaExtractor, resources, pipeline, startPc,
                   wasmPending, inFlight, call, overwrites>>

Tick == TickUpTo(MaxTime)

Next ==
    \/ ClickStart
    \/ LoadWasmScriptOk
    \/ LoadScriptFail
    \/ AudioContextFail
    \/ AudioContextOk
    \/ GetUserMediaFail
    \/ GetUserMediaOk
    \/ AddModuleFail
    \/ AddModuleOk
    \/ WasmReady
    \/ WasmFail
    \/ ClickStop
    \/ Deliver
    \/ DeliverInFlight
    \/ Tick

\* the page, from its load on
Spec == Init /\ [][Next]_vars

(***************************************************************************)
(* The frame model: one session that is listening, its extractor            *)
(* configured, fed chunks of 100 samples.                                   *)
(***************************************************************************)
\* the page after a start that succeeded and after the EssentiaWASM callback
Listening ==
    /\ isRecording = TRUE
    /\ essentiaExtractor = "configured"
    /\ audioCtx = "running"
    /\ gumStream = "live"
    /\ audioWorkletNode = "connected"
    /\ gainNode = "connected"
    /\ startPc = "none"
    /\ wasmPending = 0
    /\ inFlight = 0

InitFrames ==
    /\ Listening
    /\ hpcpAccumulation = <<>>
    /\ now = 0
    /\ lastSmoothingTime = 0
    /\ lastChordResult = "None"
    /\ lastNotesResult = NoneText
    /\ sampleAccumulator = <<>>
    /\ last = NoLog
    /\ call = NoCall
    /\ overwrites = NoOverwrites

\* a chunk that holds just the samples an accumulator of whole chunks lacks
\* to reach BUFFER_SIZE
ShortChunk == Chunk(2, BUFFER_SIZE % 100)

\* the chunks the producer can post next: a whole one, or the short one when
\* it fills the frame exactly
FrameInputs ==
    FrameChunks \cup
        (IF TotalSamples(sampleAccumulator) + ShortChunk.len = BUFFER_SIZE
         THEN {ShortChunk} ELSE {})

DeliverFrameChunk == DeliverFrom(FrameInputs) /\ UNCHANGED overwrites

NextFrames ==
    \/ DeliverFrameChunk
    \/ Tick

SpecFrames == InitFrames /\ [][NextFrames]_vars

(***************************************************************************)
(* detectChord on its own: one call, on a vector of the input set.          *)
(***************************************************************************)
\* largest entry of the vectors with few pitch classes
MaxStrength == 2

Vec(num) == [num |-> num, den |-> 1]

\* vectors with at most two pitch classes sounding, each with a strength in 1 .. MaxStrength
SparseVectors ==
    {Vec(Array12(LAMBDA i : IF i = p THEN x ELSE IF i = q THEN y ELSE 0)) :
        p \in Idx, q \in Idx, x \in 0 .. MaxStrength, y \in 0 .. MaxStrength}

\* two chords of the library sounding together (or one chord twice)
ChordPairs ==
    {Vec(Array12(LAMBDA i : At(chordTemplates[m].template.num, i)
                              + At(chordTemplates[n].template.num, i))) :
        m \in 1 .. Len(chordTemplates), n \in 1 .. Len(chordTemplates)}

\* the templates of the library themselves
TemplateVectors == {chordTemplates[n].template : n \in 1 .. Len(chordTemplates)}

DetectInputs == SparseVectors \cup ChordPairs \cup TemplateVectors

CallDetectChord ==
    /\ call = NoCall
    /\ \E v \in DetectInputs :
          call' = [fn |-> "detectChord", arg |-> v, result |-> detectChord(v, chordTemplates)]
    /\ UNCHANGED <<isRecording, essentiaExtractor, resources, pipeline, now, startPc,
                   wasmPending, inFlight, last, overwrites>>

NextDetect == CallDetectChord

SpecDetect == Init /\ [][NextDetect]_vars

(***************************************************************************)
(* shiftHPCP on its own: one call, and the call that should undo it.        *)
(***************************************************************************)
\* shifts from -MaxShift to MaxShift are tried
MaxShift == 14

\* a vector whose twelve entries all differ, and three chroma vectors
ShiftVectors ==
    {[num |-> Array12(LAMBDA i : i + 1), den |-> ChromaDen],
     ChromaOf({0}), ChromaOf({0, 3, 7}), ChromaOf({0, 4, 9})}

CallShiftHPCP ==
    /\ call = NoCall
    /\ \E v \in ShiftVectors, shift \in (0 - MaxShift) .. MaxShift :
          \E shifted \in {shiftHPCP(v, shift)} :
              call' = [fn |-> "shiftHPCP", arg |-> v, shift |-> shift, result |-> shifted,
                       back |-> shiftHPCP(shifted, 0 - shift)]
    /\ UNCHANGED <<isRecording, essentiaExtractor, resources, pipeline, now, startPc,
                   wasmPending, inFlight, last, overwrites>>

NextShift == CallShiftHPCP

SpecShift == Init /\ [][NextShift]_vars

(***************************************************************************)
(* detectNotes on its own: one call.  The entries of the vectors are in     *)
(* units of 1 / (10 * ChromaDen): ChromaDen of them are 0.1.                *)
(***************************************************************************)
\* 0, just under 0.1, exactly 0.1, and 1.0
NoteLevels == {0, ChromaDen - 1, ChromaDen, 10 * ChromaDen}

\* vectors with up to three pitch classes sounding, one of them G
NoteVectors ==
    {[num |-> Array12(LAMBDA i : IF i = p THEN x ELSE IF i = q THEN y
                                  ELSE IF i = 7 THEN z ELSE 0),
      den |-> 10 * ChromaDen] :
        p \in Idx, q \in Idx, x \in NoteLevels, y \in NoteLevels, z \in NoteLevels}

\* the threshold of the pipeline, and the default of the parameter
NoteThresholds == {<<NOTE_THRESHOLD_NUM, NOTE_THRESHOLD_DEN>>, <<DEFAULT_THRESHOLD_NUM, DEFAULT_THRESHOLD_DEN>>}

CallDetectNotes ==
    /\ call = NoCall
    /\ \E v \in NoteVectors, t \in NoteThresholds :
          call' = [fn |-> "detectNotes", arg |-> v, threshold |-> t,
                   result |-> detectNotes(v, t[1], t[2])]
    /\ UNCHANGED <<isRecording, essentiaExtractor, resources, pipeline, now, startPc,
                   wasmPending, inFlight, last, overwrites>>

NextNotes == CallDetectNotes

SpecNotes == Init /\ [][NextNotes]_vars

(***************************************************************************)
(* The page with a record of its overwrites: each run of the handler that   *)
(* stores a result (lines 200-201) adds the time of the run, and whether a  *)
(* stop came since the overwrite before.                                    *)
(***************************************************************************)
\* the record after a handler run
LogOverwrite ==
    overwrites' =
        IF last'.outcome = "flushed"
        THEN [log |-> Append(overwrites.log, [at |-> now, afterStop |-> overwrites.stopped]),
              stopped |-> FALSE]
        ELSE overwrites

\* what hpcpExtractor does here: it throws, or returns C, E, A at full
\* strength (the times of the overwrites do not depend on the chroma)
WindowOutcomes ==
    {h \in HpcpOutcomes : ~h.ok} \cup {[ok |-> TRUE, hpcp |-> ChromaOf({0, 4, 9})]}

DeliverLogged ==
    /\ audioWorkletNode = "connected"
    /\ \E c \in Chunks : OnMessageWith(c, WindowOutcomes)
    /\ UNCHANGED <<isRecording, essentiaExtractor, resources, now, startPc, wasmPending,
                   inFlight, call>>
    /\ LogOverwrite

DeliverInFlightLogged ==
    /\ inFlight > 0
    /\ inFlight' = inFlight - 1
    /\ \E c \in Chunks : OnMessageWith(c, WindowOutcomes)
    /\ UNCHANGED <<isRecording, essentiaExtractor, resources, now, startPc, wasmPending, call>>
    /\ LogOverwrite

ClickStopLogged == ClickStopHandler /\ overwrites' = [overwrites EXCEPT !.stopped = TRUE]

NextWindows ==
    \/ ClickStart
    \/ LoadWasmScriptOk
    \/ LoadScriptFail
    \/ AudioContextFail
    \/ AudioContextOk
    \/ GetUserMediaFail
    \/ GetUserMediaOk
    \/ AddModuleFail
    \/ AddModuleOk
    \/ WasmReady
    \/ WasmFail
    \/ ClickStopLogged
    \/ DeliverLogged
    \/ DeliverInFlightLogged
    \/ Tick

SpecWindows == Init /\ [][NextWindows]_vars

(***************************************************************************)
(* The listening session in real time: the clock keeps advancing, whether   *)
(* or not the worklet posts chunks.                                         *)
(***************************************************************************)
TickLive == TickUpTo(MaxLiveTime)

NextLive ==
    \/ DeliverLogged
    \/ TickLive

\* the clock advances while it can; nothing makes the worklet post
SpecLive == InitFrames /\ [][NextLive]_vars /\ WF_vars(TickLive)

(***************************************************************************)
(* stopAudioWorkletStream called directly.  The click handler calls it only *)
(* while isRecording is true; the function is a global of the page and the  *)
(* call below is one made while isRecording is false.                       *)
(***************************************************************************)
StopWhileIdle ==
    /\ startPc = "none"
    /\ ~isRecording
    /\ stopAudioWorkletStream
    /\ last' = NoLog
    /\ UNCHANGED <<now, startPc, wasmPending, inFlight, call, overwrites>>

NextStop ==
    \/ Deliver
    \/ DeliverInFlight
    \/ Tick
    \/ ClickStop
    \/ StopWhileIdle

\* a listening session that is stopped, and stopped again
SpecStop == InitFrames /\ [][NextStop]_vars

(***************************************************************************)
(* generateChordTemplate on its own: one call.                              *)
(***************************************************************************)
\* the interval lists of the library, and every triad <<0, a, b>> with
\* 0 < a < b < 12
IntervalLists ==
    {chordTypes[n].intervals : n \in 1 .. Len(chordTypes)}
        \cup {t \in {<<0, a, b>> : a \in 1 .. 10, b \in 2 .. 11} : t[2] < t[3]}

CallGenerateChordTemplate ==
    /\ call = NoCall
    /\ \E rootIndex \in Idx, intervals \in IntervalLists :
          call' = [fn |-> "generateChordTemplate", rootIndex |-> rootIndex,
                   intervals |-> intervals,
                   result |-> generateChordTemplate(rootIndex, intervals)]
    /\ UNCHANGED <<isRecording, essentiaExtractor, resources, pipeline, now, startPc,
                   wasmPending, inFlight, last, overwrites>>

NextTemplate == CallGenerateChordTemplate

SpecTemplate == Init /\ [][NextTemplate]_vars

(***************************************************************************)
(* The handler fed frames that may have no pitched content: hpcpExtractor   *)
(* returns the all-zero vector for them.                                    *)
(***************************************************************************)
\* all zero, or C, D#, G at full strength
UnpitchedOutcomes == {[ok |-> TRUE, hpcp |-> h] : h \in {ChromaOf({}), ChromaOf({0, 3, 7})}}

DeliverUnpitched ==
    /\ audioWorkletNode = "connected"
    /\ \E c \in Chunks : OnMessageWith(c, UnpitchedOutcomes)
    /\ UNCHANGED <<isRecording, essentiaExtractor, resources, now, startPc, wasmPending,
                   inFlight, call, overwrites>>

NextUnpitched == DeliverUnpitched \/ Tick

SpecUnpitched == InitFrames /\ [][NextUnpitched]_vars

(***************************************************************************)
(* Definitions the properties are stated with                              *)
(***************************************************************************)
\* the last step was a run of the onmessage handler
Delivered == last.outcome # "none"

StoredResult == <<lastChordResult, lastNotesResult>>

\* circular rotation: the entry at index (i + s) mod 12 is the entry of v at index i
Rotation(v, s) == [num |-> Array12(LAMBDA j : At(v.num, (j - s) % 12)), den |-> v.den]

RECURSIVE EntrySum(_, _, _)
\* the sum of the entries at index i of vs[1] .. vs[n]
EntrySum(vs, i, n) == IF n = 0 THEN 0 ELSE EntrySum(vs, i, n - 1) + At(vs[n].num, i)

\* element-wise arithmetic mean of vectors of one denominator
Mean(vs) == [num |-> Array12(LAMBDA i : EntrySum(vs, i, Len(vs))), den |-> vs[1].den * Len(vs)]

\* v has the value 1.0 exactly at the pitch classes of pcs and 0 elsewhere
IsTemplateOf(v, pcs) ==
    \A i \in Idx : At(v.num, i) = (IF i \in pcs THEN v.den ELSE 0)

\* the pitch classes of A minor: A, C, E
AMinor == {9, 0, 4}

(***************************************************************************)
(* C1.  On every chunk delivery the chunk is appended to the accumulator;   *)
(* a frame is emitted in that callback exactly when the buffered length,    *)
(* the new chunk included, is >= BUFFER_SIZE; the frame is the first        *)
(* BUFFER_SIZE samples of the buffered chunks in arrival order, and the     *)
(* accumulator is empty afterwards (the samples beyond BUFFER_SIZE are       *)
(* dropped).                                                                *)
(***************************************************************************)
\* frame holds the first n samples of the concatenation of chunks
IsPrefixOfLength(frame, chunks, n) ==
    /\ Len(frame) <= Len(chunks)
    /\ SumLengths(frame, 1, Len(frame)) = n
    /\ \A j \in 1 .. Len(frame) :
          /\ frame[j].src = chunks[j].src
          /\ frame[j].from = chunks[j].from
          /\ frame[j].len >= 1
          /\ IF j < Len(frame) THEN frame[j].len = chunks[j].len
                               ELSE frame[j].len <= chunks[j].len

C1_FrameStep ==
    Delivered' =>
        LET buffered == Append(sampleAccumulator, last'.chunk[1])
            emitted  == last'.frame # <<>>
        IN  /\ emitted <=> SumLengths(buffered, 1, Len(buffered)) >= BUFFER_SIZE
            /\ emitted => /\ IsPrefixOfLength(last'.frame, buffered, BUFFER_SIZE)
                          /\ sampleAccumulator' = <<>>
            /\ ~emitted => sampleAccumulator' = buffered

C1_FrameEmission == [][C1_FrameStep]_vars

\* the 82nd chunk of 100 samples has just made a frame: 81 whole chunks and
\* 92 samples of the 82nd, whose last 8 samples are gone
C1_Witness ==
    /\ Delivered
    /\ Len(last.frame) = 82
    /\ \A j \in 1 .. 81 : last.frame[j].len = 100
    /\ last.frame[82].len = 92
    /\ sampleAccumulator = <<>>

(***************************************************************************)
(* C2.  The stored result is overwritten in a step exactly when that step   *)
(* is a handler run that made a frame, the frame passed the RMS gate, its   *)
(* chroma vector was extracted, and now - lastSmoothingTime is at least     *)
(* SMOOTHING_INTERVAL.  Time passing alone, or any step that is not a       *)
(* handler run, never overwrites it.                                        *)
(***************************************************************************)
\* the step ran lines 189-204
Overwrites == last'.outcome = "flushed" /\ lastSmoothingTime' = now

C2_FlushCondition ==
    /\ last'.frame # <<>>
    /\ last'.rms # <<>> /\ last'.rms[1] >= RMS_FLOOR
    /\ last'.hpcp # <<>>
    /\ now - lastSmoothingTime >= SMOOTHING_INTERVAL

C2_OverwriteStep ==
    /\ Delivered' => (Overwrites <=> C2_FlushCondition)
    /\ ~Overwrites => StoredResult' = StoredResult /\ lastSmoothingTime' = lastSmoothingTime

C3_Window == Append(hpcpAccumulation, Rotation(last'.hpcp[1], PITCH_SHIFT))

\* the stored result is the one detected on the mean of the vectors vs
StoresResultOf(vs) ==
    \E mean \in {Mean(vs)} :
        /\ lastChordResult' = detectChord(mean, chordTemplates)
        /\ lastNotesResult' = TopNotes(detectNotes(mean, NOTE_THRESHOLD_NUM, NOTE_THRESHOLD_DEN))

C3_FlushStep ==
    /\ last'.outcome = "flushed" =>
          /\ StoresResultOf(C3_Window)
          /\ hpcpAccumulation' = <<>>
          /\ lastSmoothingTime' = now
    /\ last'.outcome = "accepted" => hpcpAccumulation' = C3_Window
    /\ last'.outcome \notin {"flushed", "accepted"} =>
          hpcpAccumulation' \in {hpcpAccumulation, <<>>}

C3_FlushStoresMean == [][C3_FlushStep]_vars

\* a flush over two different vectors: a note only one of them has is at half strength
C3_Witness ==
    /\ last.outcome = "flushed"
    /\ hpcpAccumulation = <<>>
    /\ lastSmoothingTime = now
    /\ lastNotesResult.items # <<>>
    /\ \E k \in 1 .. Len(lastNotesResult.items) : lastNotesResult.items[k][2] = 50

(***************************************************************************)
(* C4.  A frame whose RMS is below RMS_FLOOR is discarded before the chroma *)
(* extraction: the collection, lastSmoothingTime and the stored result are  *)
(* unchanged by it.  A frame whose RMS is exactly RMS_FLOOR passes the gate *)
(* and, once its chroma is extracted, is part of the window.                *)
(***************************************************************************)
C4_GateStep ==
    last'.rms # <<>> =>
        IF last'.rms[1] < RMS_FLOOR
        THEN /\ last'.hpcp = <<>>
             /\ UNCHANGED <<hpcpAccumulation, lastSmoothingTime, lastChordResult, lastNotesResult>>
        ELSE /\ last'.outcome \in {"hpcpThrew", "accepted", "flushed"}
             /\ last'.hpcp # <<>> =>
                   \/ hpcpAccumulation' = C3_Window
                   \/ /\ hpcpAccumulation' = <<>>
                      /\ StoresResultOf(C3_Window)

C4_RmsGate == [][C4_GateStep]_vars

\* a frame whose RMS is exactly the floor has been added to the window
C4_Witness ==
    /\ last.rms = <<RMS_FLOOR>>
    /\ last.outcome = "accepted"
    /\ hpcpAccumulation # <<>>
    /\ hpcpAccumulation[Len(hpcpAccumulation)] = Rotation(last.hpcp[1], PITCH_SHIFT)

(***************************************************************************)
(* C5.  detectChord returns the label of a library template whose cosine    *)
(* similarity to the input vector is maximal over the library; among the    *)
(* templates that attain the maximum it returns the first in the order      *)
(* roots C .. B outermost, qualities maj, min, dim, aug, 7 innermost.       *)
(* Stated for vectors that are not all zero.                                *)
(***************************************************************************)
Qualities == <<"maj", "min", "dim", "aug", "7">>

QualityIntervals == <<{0, 4, 7}, {0, 3, 7}, {0, 3, 6}, {0, 4, 8}, {0, 4, 7, 10}>>

\* the pitch classes of the chord of quality number q on root r
PitchClasses(r, q) == {(r + d) % 12 : d \in QualityIntervals[q]}

RECURSIVE SumOver(_, _)
\* the sum of the entries of v at the pitch classes pcs
SumOver(v, pcs) ==
    IF pcs = {} THEN 0
    ELSE LET i == CHOOSE i \in pcs : TRUE IN At(v.num, i) + SumOver(v, pcs \ {i})

\* cosine(v, chord a) > cosine(v, chord b) for a vector v of non-negative entries:
\* the norm of v cancels, and the norm of a chord template is the square root of
\* its number of pitch classes
MoreSimilar(v, a, b) ==
    LET da == SumOver(v, PitchClasses(a[1], a[2]))
        db == SumOver(v, PitchClasses(b[1], b[2]))
    IN  da * da * Cardinality(PitchClasses(b[1], b[2]))
          > db * db * Cardinality(PitchClasses(a[1], a[2]))

ChordIds == Idx \X (1 .. Len(Qualities))

Earlier(a, b) == a[1] < b[1] \/ (a[1] = b[1] /\ a[2] < b[2])

\* the first chord, in library order, that no chord is more similar to v than
FirstBest(v) ==
    CHOOSE a \in ChordIds :
        /\ \A b \in ChordIds : ~MoreSimilar(v, b, a)
        /\ \A b \in ChordIds : Earlier(b, a) => MoreSimilar(v, a, b)

C6_SingleFrameFlush ==
    /\ last'.outcome = "flushed"
    /\ Len(last'.frame) = 82
    /\ hpcpAccumulation = <<>>

C6_ExtractorChromaIsLabel ==
    [][(C6_SingleFrameFlush /\ IsTemplateOf(last'.hpcp[1], AMinor))
          => lastChordResult' = "A:min"]_vars

(***************************************************************************)
(* C6, amended.  Same run, but it is the chroma vector after the rotation   *)
(* by PITCH_SHIFT that equals the A:min template (the extractor returned    *)
(* the pitch classes three semitones higher): the stored chord label is     *)
(* then "A:min".                                                            *)
(***************************************************************************)
C6_RotatedChromaIsLabel ==
    [][(C6_SingleFrameFlush /\ IsTemplateOf(Rotation(last'.hpcp[1], PITCH_SHIFT), AMinor))
          => lastChordResult' = "A:min"]_vars

\* 82 chunks of 100 samples, the extractor returned C, D#, G, the window had elapsed
C6_Witness ==
    /\ last.outcome = "flushed"
    /\ Len(last.frame) = 82
    /\ last.rms # <<>> /\ last.rms[1] >= RMS_FLOOR
    /\ IsTemplateOf(last.hpcp[1], {0, 3, 7})
    /\ IsTemplateOf(Rotation(last.hpcp[1], PITCH_SHIFT), AMinor)
    /\ lastChordResult = "A:min"

(***************************************************************************)
(* C7.  Stopping leaves lastChordResult and lastNotesResult as they were,   *)
(* empties sampleAccumulator and hpcpAccumulation, and ends the recording   *)
(* state.                                                                   *)
(***************************************************************************)
C7_StopStep ==
    (isRecording /\ ~isRecording') =>
        /\ StoredResult' = StoredResult
        /\ sampleAccumulator' = <<>>
        /\ hpcpAccumulation' = <<>>

C7_StopKeepsResult == [][C7_StopStep]_vars

\* stopped with a detected chord on display
C7_Witness ==
    /\ ~isRecording
    /\ audioWorkletNode = "null"
    /\ lastChordResult = "A:min"
    /\ lastNotesResult # NoneText
    /\ sampleAccumulator = <<>>
    /\ hpcpAccumulation = <<>>
    /\ last = NoLog

(***************************************************************************)
(* C8.  A start that fails at the audio context, the microphone or the      *)
(* worklet module leaves the page not recording and holds none of the       *)
(* resources of the attempt.                                                *)
(***************************************************************************)
\* the step ends a start without a connected worklet node
StartFails ==
    /\ startPc \in {"loadWasm", "loadExtractor", "getUserMedia", "addModule"}
    /\ startPc' \in {"none", "rejected"}
    /\ audioWorkletNode' = "null"

C8_FailedStartStep ==
    StartFails =>
        /\ ~isRecording'
        /\ audioCtx' = "null"
        /\ gumStream' = "null"
        /\ gainNode' = "null"

C8_FailedStartStaysIdle == [][C8_FailedStartStep]_vars

\* the page believes it is recording although the start ended at a failure:
\* there is no worklet node, and the audio context of the attempt is still open
C8_Witness ==
    /\ isRecording
    /\ startPc = "none"
    /\ audioWorkletNode = "null"
    /\ audioCtx = "running"
    /\ gumStream = "null"

(***************************************************************************)
(* C9.  While the page is not recording no handler run changes              *)
(* sampleAccumulator, hpcpAccumulation, lastSmoothingTime or the stored     *)
(* result, and sampleAccumulator is empty when the next recording starts.   *)
(***************************************************************************)
C9_IdleStep ==
    /\ (~isRecording /\ Delivered') => UNCHANGED pipeline
    /\ (~isRecording /\ isRecording') => sampleAccumulator = <<>>

C9_NoChangeAfterStop == [][C9_IdleStep]_vars

\* stopped, and a chunk delivered since then sits in sampleAccumulator
C9_Witness ==
    /\ ~isRecording
    /\ startPc = "none"
    /\ Delivered
    /\ sampleAccumulator # <<>>

(***************************************************************************)
(* C10.  When the extractor throws in RMS or in hpcpExtractor the frame is  *)
(* skipped: the stored result, hpcpAccumulation and lastSmoothingTime are   *)
(* unchanged, sampleAccumulator is empty, and the handler stays in place    *)
(* for the chunks that follow.                                              *)
(***************************************************************************)
ExtractorThrew == last.outcome \in {"rmsThrew", "hpcpThrew"}

C10_ThrowStep ==
    ExtractorThrew' =>
        /\ UNCHANGED <<hpcpAccumulation, lastSmoothingTime, lastChordResult, lastNotesResult>>
        /\ sampleAccumulator' = <<>>
        /\ UNCHANGED <<audioWorkletNode, essentiaExtractor>>

C10_ExtractorFailureSkipsFrame ==
    /\ [][C10_ThrowStep]_vars
    /\ [](ExtractorThrew /\ audioWorkletNode = "connected" => ENABLED Deliver)

\* hpcpExtractor threw on a frame while a chord was on display and a vector was
\* waiting in the window
C10_Witness ==
    /\ last.outcome = "hpcpThrew"
    /\ audioWorkletNode = "connected"
    /\ lastChordResult = "A:min"
    /\ hpcpAccumulation # <<>>
    /\ sampleAccumulator = <<>>

(***************************************************************************)
(* C11.  At the moment a session becomes active (the worklet node is        *)
(* connected and isRecording becomes true) sampleAccumulator and            *)
(* hpcpAccumulation are empty, lastSmoothingTime is the time of the start,  *)
(* and the stored result is the initial "None".                             *)
(***************************************************************************)
\* the step that ends a successful start
SessionStarts == audioWorkletNode = "null" /\ audioWorkletNode' = "connected" /\ isRecording'

C11_StartStep ==
    SessionStarts =>
        /\ sampleAccumulator' = <<>>
        /\ hpcpAccumulation' = <<>>
        /\ lastSmoothingTime' = now'
        /\ lastChordResult' = "None"
        /\ lastNotesResult' = NoneText

C11_StartResetsState == [][C11_StartStep]_vars

\* a session that has just started with the chord of an earlier session stored
\* and a window that began before the start
C11_Witness ==
    /\ isRecording
    /\ audioWorkletNode = "connected"
    /\ last = NoLog
    /\ sampleAccumulator = <<>>
    /\ hpcpAccumulation = <<>>
    /\ lastChordResult = "A:min"
    /\ lastSmoothingTime < now

(***************************************************************************)
(* C12.  When the mean vector of a flush is all zero, detection completes   *)
(* and the stored chord is the no-chord value of detectChord (bestChord's   *)
(* initial null), not a label of the library: the similarity to every       *)
(* template is NaN, which is greater than no score.                         *)
(***************************************************************************)
IsAllZero(v) == \A i \in Idx : At(v.num, i) = 0

LibraryLabels == {chordTemplates[n].label : n \in 1 .. Len(chordTemplates)}

C12_ZeroFlushStep ==
    (last'.outcome = "flushed" /\ IsAllZero(Mean(C3_Window))) =>
        /\ \A n \in 1 .. Len(chordTemplates) :
              cosineSimilarity(Mean(C3_Window), chordTemplates[n].template).kind = "NaN"
        /\ lastChordResult' = "null"
        /\ lastChordResult' \notin LibraryLabels
        /\ lastNotesResult' = [text |-> "joined", items |-> <<>>]
        /\ lastSmoothingTime' = now

ChordName(a) == noteNames[a[1] + 1] \o ":" \o Qualities[a[2]]

\* the similarity of the argument of the call to the template of the label returned is 1
ResultSimilarityIsOne ==
    \E n \in 1 .. Len(chordTemplates) :
        /\ chordTemplates[n].label = call.result
        /\ \E sc \in {cosineSimilarity(call.arg, chordTemplates[n].template)} :
              sc.kind = "num" /\ sc.dot > 0 /\ sc.dot * sc.dot = sc.nn

C13_EveryTemplateDetectsItself ==
    call.fn = "detectChord" =>
        \A a \in ChordIds :
            IsTemplateOf(call.arg, PitchClasses(a[1], a[2])) =>
                call.result = ChordName(a) /\ ResultSimilarityIsOne

(***************************************************************************)
(* C13, amended.  detectChord on the template of L returns, with            *)
(* similarity 1.0, the first label of the library whose template is that    *)
(* vector: L itself unless an earlier label has the same template, which    *)
(* is so for the augmented chords on the roots E to B (C:aug, E:aug and     *)
(* G#:aug share one template, and so on).                                   *)
(***************************************************************************)
HasEarlierTwin(a) ==
    \E b \in ChordIds : Earlier(b, a) /\ PitchClasses(b[1], b[2]) = PitchClasses(a[1], a[2])

C13_TemplateDetectsFirstTwin ==
    call.fn = "detectChord" =>
        \A a \in ChordIds :
            (IsTemplateOf(call.arg, PitchClasses(a[1], a[2])) /\ ~HasEarlierTwin(a)) =>
                call.result = ChordName(a) /\ ResultSimilarityIsOne

\* the template of A:min was given and "A:min" came back
C13_Witness ==
    /\ call.fn = "detectChord"
    /\ IsTemplateOf(call.arg, AMinor)
    /\ call.result = "A:min"
    /\ ResultSimilarityIsOne

(***************************************************************************)
(* C14.  For every vector v and every integer shift s, also beyond 12 in    *)
(* either direction, shiftHPCP(v, s) has at index (i + s) mod 12 the entry  *)
(* of v at index i, and shiftHPCP(shiftHPCP(v, s), -s) is v again.          *)
(***************************************************************************)
C14_RotationRoundTrip ==
    call.fn = "shiftHPCP" =>
        /\ \A i \in Idx : At(call.result.num, (i + call.shift) % 12) = At(call.arg.num, i)
        /\ call.back = call.arg

\* a shift below -12: (i + shift + 12) % 12 is negative for some i, the entry is
\* stored under a negative key and the array keeps a hole
C14_Witness ==
    /\ call.fn = "shiftHPCP"
    /\ call.shift < -12
    /\ \E j \in Idx : At(call.result.num, j) = Hole
    /\ call.back # call.arg

(***************************************************************************)
(* C15.  detectNotes returns exactly the pitch classes whose value is >=    *)
(* the threshold, each with its value, ordered by value descending and,     *)
(* among equal values, by pitch-class index ascending.                      *)
(***************************************************************************)
PitchClassOf(name) == CHOOSE i \in Idx : noteNames[i + 1] = name

C15_DominantNotes ==
    call.fn = "detectNotes" =>
        LET v      == call.arg
            notes  == call.result
            loud   == {i \in Idx : At(v.num, i) * call.threshold[2] >= call.threshold[1] * v.den}
            pc(k)  == PitchClassOf(notes[k].note)
        IN  /\ Len(notes) = Cardinality(loud)
            /\ {pc(k) : k \in 1 .. Len(notes)} = loud
            /\ \A k \in 1 .. Len(notes) :
                  notes[k].num = At(v.num, pc(k)) /\ notes[k].den = v.den
            /\ \A k \in 1 .. Len(notes), l \in 1 .. Len(notes) :
                  k < l => \/ notes[k].num > notes[l].num
                           \/ notes[k].num = notes[l].num /\ pc(k) < pc(l)

\* [1,0,0,0,1,0,0,1,0,0,0,0] with threshold 0.1 gave C, E, G
C15_Witness ==
    /\ call.fn = "detectNotes"
    /\ call.threshold = <<NOTE_THRESHOLD_NUM, NOTE_THRESHOLD_DEN>>
    /\ \A i \in Idx : At(call.arg.num, i) = (IF i \in {0, 4, 7} THEN call.arg.den ELSE 0)
    /\ Len(call.result) = 3
    /\ call.result[1].note = "C" /\ call.result[2].note = "E" /\ call.result[3].note = "G"

(***************************************************************************)
(* C16.  The library has 60 entries, one for each of the 12 roots and 5     *)
(* chord types, in the order of the loops; the template of root r and       *)
(* intervals I is 1 exactly at the indices (r + i) mod 12, i in I, and 0     *)
(* elsewhere, so it has as many ones as I has intervals.  The library is a  *)
(* constant of the page: no handler assigns to it.                          *)
(***************************************************************************)
\* the number of entries of the 12-tuple t that are 1
Ones(t) == Cardinality({i \in Idx : At(t, i) = 1})

\* t is the template of root r and the intervals of the sequence ivs
IsTemplateFor(t, r, ivs) ==
    /\ Len(t) = 12
    /\ \A j \in Idx :
          At(t, j) = (IF \E n \in 1 .. Len(ivs) : (r + ivs[n]) % 12 = j THEN 1 ELSE 0)
    /\ Ones(t) = Len(ivs)

LibraryIsComplete ==
    /\ Len(chordTemplates) = 60
    /\ Cardinality({chordTemplates[n].label : n \in 1 .. Len(chordTemplates)}) = 60
    /\ \A r \in Idx, q \in 1 .. 5 :
          \E e \in {chordTemplates[5 * r + q]} :
              /\ e.label = ChordName(<<r, q>>)
              /\ e.template.den = 1
              /\ IsTemplateFor(e.template.num, r, chordTypes[q].intervals)
              /\ IsTemplateOf(e.template, PitchClasses(r, q))

C17_IdleStopStep ==
    StopWhileIdle =>
        UNCHANGED <<isRecording, sampleAccumulator, hpcpAccumulation, lastSmoothingTime,
                    lastChordResult, lastNotesResult>>

C17_IdleStopIsNoOp == [][C17_IdleStopStep]_vars

\* idle with samples in the accumulator, where a call of stop drops them
C17_Witness ==
    /\ ~isRecording
    /\ startPc = "none"
    /\ audioWorkletNode = "null"
    /\ TotalSamples(sampleAccumulator) > 0
    /\ ENABLED StopWhileIdle

(***************************************************************************)
(* C18.  Whenever the handler has a frame and calls the extractor,          *)
(* essentiaExtractor is not null: the callback of EssentiaWASM().then has   *)
(* run before, and no stop has run since.                                   *)
(***************************************************************************)
\* the handler that ran last had a frame and went on to line 177
FrameAnalysed == Delivered /\ last.frame # <<>>

C18_ExtractorReadyAtFrame == FrameAnalysed => essentiaExtractor # "null"

\* a session that is recording, its extractor still being initialised, whose
\* handler had a frame and found essentiaExtractor null
C18_Witness ==
    /\ isRecording
    /\ audioWorkletNode = "connected"
    /\ wasmPending > 0
    /\ FrameAnalysed
    /\ last.outcome = "noExtractor"
    /\ essentiaExtractor = "null"

(***************************************************************************)
(* C19.  Between handlers sampleAccumulator holds fewer than BUFFER_SIZE    *)
(* samples: a handler run that reaches BUFFER_SIZE empties it, whatever     *)
(* happens to the frame, and stop empties it.                               *)
(***************************************************************************)
C19_AccumulatorBelowFrame == TotalSamples(sampleAccumulator) < BUFFER_SIZE

\* a chunk has just completed a frame of exactly BUFFER_SIZE samples, and the
\* accumulator is empty again
C19_Witness ==
    /\ FrameAnalysed
    /\ Len(last.frame) > 1
    /\ TotalSamples(last.frame) = BUFFER_SIZE
    /\ sampleAccumulator = <<>>

FramePushed == last.outcome \in {"accepted", "flushed"}

\* the clock can still pass the end of the open smoothing window
ClockCanAdvance == now + 2 * SMOOTHING_INTERVAL <= MaxLiveTime

MaxOverwrites == MaxLiveTime \div SMOOTHING_INTERVAL

C21_StallStep == ~Delivered' => StoredResult' = StoredResult

C21_OverwrittenAgainAndAgain ==
    /\ \A k \in 0 .. MaxOverwrites :
          []<>FramePushed =>
              ((Len(overwrites.log) = k /\ ClockCanAdvance) ~> (Len(overwrites.log) > k))
    /\ [][C21_StallStep]_vars

\* a third overwrite in the same session
C21_Witness ==
    /\ Listening
    /\ Len(overwrites.log) = 3
    /\ last.outcome = "flushed"
    /\ overwrites.log[3].at = now
    /\ \A i \in 1 .. 3 : ~overwrites.log[i].afterStop

=============================================================================
